---------------------------- MODULE Spec2Model ----------------------------
(***************************************************************************)
(* Model of the CFG toolkit: grammar validation (logic/cfg_parser.py),     *)
(* CNF conversion (logic/cnf_converter.py), CYK recognition and tree       *)
(* reconstruction (logic/cyk.py, logic/tree_builder.py) and the Flask      *)
(* request handlers that keep the active grammar (app.py).                 *)
(*                                                                         *)
(* A Python str is a sequence of one-character strings, so that the three  *)
(* different is_variable tests, the f"X{n}" names, the appended            *)
(* apostrophes and the quoted leaf labels are computed, not assumed.       *)
(* A Python dict is a sequence of records [k, v] in insertion order.       *)
(***************************************************************************)
EXTENDS Integers, Sequences, FiniteSets, TLC

----------------------------------------------------------------------------
(* Characters and strings *)

Upper == {"A","B","C","D","E","F","G","H","I","J","K","L","M",
          "N","O","P","Q","R","S","T","U","V","W","X","Y","Z"}
Lower == {"a","b","c","d","e","f","g","h","i","j","k","l","m",
          "n","o","p","q","r","s","t","u","v","w","x","y","z"}
Digit == {"0","1","2","3","4","5","6","7","8","9"}
WordChar == Upper \cup Lower \cup Digit \cup {"_"}
APOS == "'"
QUOTE == "\""
SPACE == " "

\* the one-symbol string "ε" (one character, a lowercase Greek letter)
EPS == <<"eps">>


RECURSIVE Strip(_)
Strip(s) ==
    IF s = <<>> THEN s
    ELSE IF Head(s) = SPACE THEN Strip(Tail(s))
    ELSE IF s[Len(s)] = SPACE THEN Strip(SubSeq(s, 1, Len(s) - 1))
    ELSE s

\* cfg_parser._VAR_RE : ^[A-Z][A-Za-z0-9_]*'?$
is_variable(token) ==
    /\ Len(token) >= 1
    /\ token[1] \in Upper
    /\ \/ \A i \in 2..Len(token) : token[i] \in WordChar
       \/ /\ Len(token) >= 2
          /\ token[Len(token)] = APOS
          /\ \A i \in 2..(Len(token) - 1) : token[i] \in WordChar

\* cnf_converter.is_variable : sym and sym[0].isupper()
cnf_is_variable(sym) == Len(sym) >= 1 /\ sym[1] \in Upper

----------------------------------------------------------------------------
(* dict helpers: a dict is a sequence of [k |-> key, v |-> value] *)

Keys(d) == {d[i].k : i \in DOMAIN d}
KeyList(d) == [i \in DOMAIN d |-> d[i].k]
Has(d, key) == \E i \in DOMAIN d : d[i].k = key
Get(d, key) == d[CHOOSE i \in DOMAIN d : d[i].k = key].v
\* d[key] = val  (assignment keeps the position of an existing key)
Put(d, key, val) ==
    IF Has(d, key)
    THEN [i \in DOMAIN d |-> IF d[i].k = key THEN [k |-> key, v |-> val] ELSE d[i]]
    ELSE Append(d, [k |-> key, v |-> val])
\* d.get(key, [])
GetOr(d, key) == IF Has(d, key) THEN Get(d, key) ELSE <<>>

SeqToSet(s) == {s[i] : i \in DOMAIN s}
Contains(s, x) == \E i \in DOMAIN s : s[i] = x

RECURSIVE FilterSeq(_, _)
\* the elements of s that are members of the set keep, in order
FilterSeq(s, keep) ==
    IF s = <<>> THEN <<>>
    ELSE IF Head(s) \in keep THEN <<Head(s)>> \o FilterSeq(Tail(s), keep)
    ELSE FilterSeq(Tail(s), keep)

----------------------------------------------------------------------------
(* logic/cfg_parser.py : parse_cfg *)

\* A request's productions: a JSON object or a JSON array
DictProductions(d) == [type |-> "dict", val |-> d]
ListProductions(l) == [type |-> "list", val |-> l]

CFGError(msg) == [ok |-> FALSE, err |-> msg, grammar |-> <<>>]
Parsed(g) == [ok |-> TRUE, err |-> "", grammar |-> g]

RECURSIVE StripSymbols(_)
\* [s.strip() for s in rhs if isinstance(s, str) and s.strip() != ""]
StripSymbols(rhs) ==
    IF rhs = <<>> THEN <<>>
    ELSE (IF Strip(Head(rhs)) = <<>> THEN <<>> ELSE <<Strip(Head(rhs))>>)
         \o StripSymbols(Tail(rhs))

\* productions_map[lhs].append(symbols if symbols else ["ε"])
NormRule(rhs) ==
    LET symbols == StripSymbols(rhs)
    IN  IF symbols = <<>> THEN <<EPS>> ELSE symbols

RECURSIVE BuildFromDict(_, _)
\* the loop over productions.items(): rhs_list is a list of token lists
BuildFromDict(items, pm) ==
    IF items = <<>> THEN [err |-> "", map |-> pm]
    ELSE LET raw == Head(items).k
             lhs == Strip(raw)
         IN  IF raw = <<>> THEN [err |-> "InvalidLHS", map |-> pm]
             ELSE IF lhs = <<>> THEN BuildFromDict(Tail(items), pm)
             ELSE IF ~is_variable(lhs) THEN [err |-> "InvalidVariableName", map |-> pm]
             ELSE LET rhs_list == Head(items).v
                      old == GetOr(pm, lhs)
                      new == [i \in DOMAIN rhs_list |-> NormRule(rhs_list[i])]
                  IN  BuildFromDict(Tail(items), Put(pm, lhs, old \o new))

RECURSIVE BuildFromList(_, _)
\* the loop over a list of {lhs, rhs} entries: rhs is one rule, a token list
BuildFromList(entries, pm) ==
    IF entries = <<>> THEN [err |-> "", map |-> pm]
    ELSE LET raw == Head(entries).lhs
             lhs == Strip(raw)
         IN  IF raw = <<>> THEN [err |-> "InvalidLHS", map |-> pm]
             ELSE IF lhs = <<>> THEN BuildFromList(Tail(entries), pm)
             ELSE IF ~is_variable(lhs) THEN [err |-> "InvalidVariableName", map |-> pm]
             ELSE BuildFromList(Tail(entries),
                      Put(pm, lhs, Append(GetOr(pm, lhs), NormRule(Head(entries).rhs))))

RECURSIVE DropEmpty(_)
\* {k: v for k, v in productions_map.items() if k and v}
DropEmpty(pm) ==
    IF pm = <<>> THEN <<>>
    ELSE (IF Head(pm).k # <<>> /\ Head(pm).v # <<>> THEN <<Head(pm)>> ELSE <<>>)
         \o DropEmpty(Tail(pm))

\* some RHS symbol looks like a variable and has no left-hand side
HasUndeclared(pm) ==
    \E i \in DOMAIN pm : \E j \in DOMAIN pm[i].v : \E n \in DOMAIN pm[i].v[j] :
        LET sym == pm[i].v[j][n]
        IN  sym # EPS /\ is_variable(sym) /\ sym \notin Keys(pm)

\* every symbol of the rule is ε, a terminal or an already useful variable
RuleUseful(rule, useful) ==
    \A n \in DOMAIN rule :
        rule[n] = EPS \/ ~is_variable(rule[n]) \/ rule[n] \in useful

RECURSIVE UsefulPass(_, _, _)
\* one pass of "for var in list(grammar.keys())"
UsefulPass(keys, grammar, useful) ==
    IF keys = <<>> THEN useful
    ELSE LET var == Head(keys)
             rules == Get(grammar, var)
         IN  IF var \in useful THEN UsefulPass(Tail(keys), grammar, useful)
             ELSE IF \E j \in DOMAIN rules : RuleUseful(rules[j], useful)
             THEN UsefulPass(Tail(keys), grammar, useful \cup {var})
             ELSE UsefulPass(Tail(keys), grammar, useful)

\* mutant of UsefulLoop: a single pass over the keys, without "while changed"
UsefulOnePass(grammar, useful) == UsefulPass(KeyList(grammar), grammar, useful)

RECURSIVE UsefulLoop(_, _)
\* while changed: ...
UsefulLoop(grammar, useful) ==
    LET next == UsefulPass(KeyList(grammar), grammar, useful)
    IN  IF next = useful THEN useful ELSE UsefulLoop(grammar, next)

\* mutant of KeepUsefulRules: the rules are copied without the filter
KeepAllRules(rules, useful) == rules

RECURSIVE KeepUsefulRules(_, _)
KeepUsefulRules(rules, useful) ==
    IF rules = <<>> THEN <<>>
    ELSE (IF RuleUseful(Head(rules), useful) THEN <<Head(rules)>> ELSE <<>>)
         \o KeepUsefulRules(Tail(rules), useful)

\* "for var in <set>": Python iterates a set of strings in an order that
\* differs from run to run; the orders modelled are the order in which the
\* names were declared and its reverse
IterationOrders == {"declared", "reversed"}
SetOrder(declared, set, iteration_order) ==
    LET vs == FilterSeq(declared, set)
    IN  IF iteration_order = "declared" THEN vs
        ELSE [i \in DOMAIN vs |-> vs[Len(vs) + 1 - i]]

\* useful_grammar
UsefulGrammar(grammar, useful, iteration_order) ==
    LET vs == SetOrder(KeyList(grammar), useful, iteration_order)
    IN  [i \in DOMAIN vs |->
            [k |-> vs[i], v |-> KeepUsefulRules(Get(grammar, vs[i]), useful)]]

RECURSIVE Concat(_)
Concat(ss) == IF ss = <<>> THEN <<>> ELSE Head(ss) \o Concat(Tail(ss))

RECURSIVE VisitSymbolsNoPush(_, _, _, _)
\* mutant of VisitSymbols: stack.append(sym) is missing
VisitSymbolsNoPush(syms, grammar, stack, reachable) ==
    IF syms = <<>> THEN [stack |-> stack, reachable |-> reachable]
    ELSE LET sym == Head(syms)
         IN  IF is_variable(sym) /\ sym \notin reachable /\ Has(grammar, sym)
             THEN VisitSymbolsNoPush(Tail(syms), grammar, stack, reachable \cup {sym})
             ELSE VisitSymbolsNoPush(Tail(syms), grammar, stack, reachable)

RECURSIVE VisitSymbols(_, _, _, _)
\* for rule in grammar.get(v, []): for sym in rule: ...
VisitSymbols(syms, grammar, stack, reachable) ==
    IF syms = <<>> THEN [stack |-> stack, reachable |-> reachable]
    ELSE LET sym == Head(syms)
         IN  IF is_variable(sym) /\ sym \notin reachable /\ Has(grammar, sym)
             THEN VisitSymbols(Tail(syms), grammar, Append(stack, sym), reachable \cup {sym})
             ELSE VisitSymbols(Tail(syms), grammar, stack, reachable)

RECURSIVE ReachLoop(_, _, _)
\* while stack: v = stack.pop() ...
ReachLoop(grammar, stack, reachable) ==
    IF stack = <<>> THEN reachable
    ELSE LET v == stack[Len(stack)]
             r == VisitSymbols(Concat(GetOr(grammar, v)), grammar,
                               SubSeq(stack, 1, Len(stack) - 1), reachable)
         IN  ReachLoop(grammar, r.stack, r.reachable)

\* parse_cfg(start_variable, productions); iteration_order is the order in
\* which this run of the interpreter iterates the sets useful and reachable
parse_cfg(start_variable0, productions, iteration_order) ==
    LET start_variable == Strip(start_variable0)
    IN
    IF start_variable0 = <<>> THEN CFGError("InvalidStartSymbol")
    ELSE IF ~is_variable(start_variable) THEN CFGError("InvalidStartSymbol")
    ELSE IF productions.type \notin {"dict", "list"} THEN CFGError("MalformedProduction")
    ELSE
    LET built == IF productions.type = "dict"
                 THEN BuildFromDict(productions.val, <<>>)
                 ELSE BuildFromList(productions.val, <<>>)
    IN
    IF built.err # "" THEN CFGError(built.err)
    ELSE
    LET productions_map == DropEmpty(built.map)
    IN
    IF Len(productions_map) = 0 THEN CFGError("NoProductions")
    ELSE IF HasUndeclared(productions_map) THEN CFGError("UndeclaredVariable")
    ELSE
    LET useful == UsefulLoop(productions_map, {})
    IN
    IF start_variable \notin useful THEN CFGError("UnproductiveStart")
    ELSE
    LET useful_grammar == UsefulGrammar(productions_map, useful, iteration_order)
        reachable == ReachLoop(useful_grammar, <<start_variable>>, {start_variable})
        vs == SetOrder(KeyList(productions_map), reachable, iteration_order)
        final_grammar == [i \in DOMAIN vs |->
                             [k |-> vs[i], v |-> GetOr(useful_grammar, vs[i])]]
    IN
    IF start_variable \notin reachable THEN CFGError("UnreachableStart")
    ELSE IF ~Has(final_grammar, start_variable) THEN CFGError("UnreachableStart")
    ELSE Parsed(final_grammar)

----------------------------------------------------------------------------
(* logic/cnf_converter.py : convert_to_cnf *)

DigitChar(d) ==
    CASE d = 0 -> "0" [] d = 1 -> "1" [] d = 2 -> "2" [] d = 3 -> "3" [] d = 4 -> "4"
      [] d = 5 -> "5" [] d = 6 -> "6" [] d = 7 -> "7" [] d = 8 -> "8" [] d = 9 -> "9"

RECURSIVE IntToStr(_)
\* str(n) for n >= 0
IntToStr(n) ==
    IF n < 10 THEN <<DigitChar(n)>>
    ELSE IntToStr(n \div 10) \o <<DigitChar(n % 10)>>

\* d.setdefault(key, []).append(x)
AppendTo(d, key, x) == Put(d, key, Append(GetOr(d, key), x))

\* mutant of fresh_var: the name is not checked against all_vars
fresh_var_unchecked(st) ==
    LET v == <<"X">> \o IntToStr(st.counter)
    IN  [v |-> v,
         st |-> [st EXCEPT !.counter = @ + 1, !.all_vars = @ \cup {v},
                           !.fresh = Append(@, v)]]

RECURSIVE fresh_var(_)
\* st.counter is the value the next call of next(counter) returns; st.fresh
\* records the names returned so far, in the order of the calls
fresh_var(st) ==
    LET v == <<"X">> \o IntToStr(st.counter)
    IN  IF v \notin st.all_vars
        THEN [v |-> v,
              st |-> [st EXCEPT !.counter = @ + 1, !.all_vars = @ \cup {v},
                                !.fresh = Append(@, v)]]
        ELSE fresh_var([st EXCEPT !.counter = @ + 1])

get_term_var(st, t) ==
    IF Has(st.term_map, t) THEN [v |-> Get(st.term_map, t), st |-> st]
    ELSE LET f == fresh_var(st)
         IN  [v |-> f.v,
              st |-> [f.st EXCEPT !.term_map = Put(@, t, f.v),
                                  !.nonterm_map = Put(@, f.v, t)]]

\* if not is_variable(s): s = get_term_var(s)
LiftSymbol(st, s) ==
    IF cnf_is_variable(s) THEN [v |-> s, st |-> st] ELSE get_term_var(st, s)

\* rule == ["ε"], or all(sym in nullable for sym in rule if is_variable(sym))
NullableRule(rule, nullable) ==
    \/ rule = <<EPS>>
    \/ \A n \in DOMAIN rule : cnf_is_variable(rule[n]) => rule[n] \in nullable

RECURSIVE NullablePass(_, _)
\* one pass of "for A, rules in grammar.items()"
NullablePass(items, nullable) ==
    IF items = <<>> THEN nullable
    ELSE LET A == Head(items).k
             rules == Head(items).v
         IN  IF A \in nullable THEN NullablePass(Tail(items), nullable)
             ELSE IF \E j \in DOMAIN rules : NullableRule(rules[j], nullable)
             THEN NullablePass(Tail(items), nullable \cup {A})
             ELSE NullablePass(Tail(items), nullable)

RECURSIVE NullableLoop(_, _)
NullableLoop(grammar, nullable) ==
    LET next == NullablePass(grammar, nullable)
    IN  IF next = nullable THEN nullable ELSE NullableLoop(grammar, next)

\* the nullable set of convert_to_cnf
NullableSet(grammar) == NullableLoop(grammar, {})

RECURSIVE KeepOrDrop(_, _, _)
\* new_sub for one symbol: each subset with sym kept, then, if droppable, without
KeepOrDrop(subsets, sym, droppable) ==
    IF subsets = <<>> THEN <<>>
    ELSE (IF droppable THEN <<Append(Head(subsets), sym), Head(subsets)>>
          ELSE <<Append(Head(subsets), sym)>>)
         \o KeepOrDrop(Tail(subsets), sym, droppable)

RECURSIVE Subsets(_, _, _)
\* subsets of rule obtained by removing nullable variables, in the code's order
Subsets(rule, nullable, subsets) ==
    IF rule = <<>> THEN subsets
    ELSE Subsets(Tail(rule), nullable,
             KeepOrDrop(subsets, Head(rule),
                        cnf_is_variable(Head(rule)) /\ Head(rule) \in nullable))

RECURSIVE AddSubsets(_, _)
\* for s in subsets: skip the empty one and those already present
AddSubsets(subsets, acc) ==
    IF subsets = <<>> THEN acc
    ELSE LET s == Head(subsets)
         IN  IF Len(s) = 0 \/ Contains(acc, s) THEN AddSubsets(Tail(subsets), acc)
             ELSE AddSubsets(Tail(subsets), Append(acc, s))

RECURSIVE EliminateEpsilonRules(_, _, _)
\* new_grammar[A] for the rules of one variable
EliminateEpsilonRules(rules, nullable, acc) ==
    IF rules = <<>> THEN acc
    ELSE IF Head(rules) = <<EPS>> THEN EliminateEpsilonRules(Tail(rules), nullable, acc)
    ELSE EliminateEpsilonRules(Tail(rules), nullable,
             AddSubsets(Subsets(Head(rules), nullable, << <<>> >>), acc))

\* Step 2: the grammar without epsilon rules
EliminateEpsilon(grammar, nullable) ==
    [i \in DOMAIN grammar |->
        [k |-> grammar[i].k,
         v |-> EliminateEpsilonRules(grammar[i].v, nullable, <<>>)]]

RECURSIVE NewStartName(_, _)
\* while S_new in grammar: S_new += "'"
NewStartName(S_new, grammar) ==
    IF Has(grammar, S_new) THEN NewStartName(Append(S_new, APOS), grammar) ELSE S_new

is_unit(rule) == Len(rule) = 1 /\ cnf_is_variable(rule[1])

RECURSIVE RemoveFirst(_, _)
\* list.remove(x): drops the first occurrence
RemoveFirst(s, x) ==
    IF s = <<>> THEN <<>>
    ELSE IF Head(s) = x THEN Tail(s)
    ELSE <<Head(s)>> \o RemoveFirst(Tail(s), x)

RECURSIVE BringRules(_, _)
\* for rB in grammar.get(B, []): append the non-unit ones that are not present
BringRules(rulesB, acc) ==
    IF rulesB = <<>> THEN acc
    ELSE LET rB == Head(rulesB)
         IN  IF (~is_unit(rB) \/ (Len(rB) = 1 /\ ~cnf_is_variable(rB[1])))
                /\ ~Contains(acc, rB)
             THEN BringRules(Tail(rulesB), Append(acc, rB))
             ELSE BringRules(Tail(rulesB), acc)

RECURSIVE UnitRules(_, _, _, _)
\* for rule in rules (the rules of A before the pass); acc is new_prod[A]
UnitRules(A, rules, grammar, acc) ==
    IF rules = <<>> THEN acc
    ELSE LET rule == Head(rules)
         IN  IF is_unit(rule) /\ rule[1] # A
             THEN UnitRules(A, Tail(rules), grammar,
                      RemoveFirst(BringRules(GetOr(grammar, rule[1]), acc), rule))
             ELSE UnitRules(A, Tail(rules), grammar, acc)

\* one pass of the while loop of Step 3
UnitPass(grammar) ==
    [i \in DOMAIN grammar |->
        [k |-> grammar[i].k,
         v |-> UnitRules(grammar[i].k, grammar[i].v, grammar, grammar[i].v)]]

\* changed: some A -> B with B # A was present (its removal sets changed)
HasProperUnit(grammar) ==
    \E i \in DOMAIN grammar : \E j \in DOMAIN grammar[i].v :
        is_unit(grammar[i].v[j]) /\ grammar[i].v[j][1] # grammar[i].k

RECURSIVE EliminateUnits(_)
\* Step 3: while changed
EliminateUnits(grammar) ==
    IF HasProperUnit(grammar) THEN EliminateUnits(UnitPass(grammar)) ELSE grammar

RECURSIVE BinarizeChain(_, _, _)
\* the rule of length >= 3 (and whatever else falls through to that branch)
BinarizeChain(st, current, chain) ==
    IF Len(chain) > 2
    THEN LET l == LiftSymbol(st, Head(chain))
             f == fresh_var(l.st)
             final1 == AppendTo(f.st.final, current, <<l.v, f.v>>)
             final2 == IF Has(final1, f.v) THEN final1 ELSE Put(final1, f.v, <<>>)
         IN  BinarizeChain([f.st EXCEPT !.final = final2], f.v, Tail(chain))
    ELSE IF Len(chain) # 2
    THEN [st EXCEPT !.err = "ValueError"]          \* left, right = chain
    ELSE LET l == LiftSymbol(st, chain[1])
             r == LiftSymbol(l.st, chain[2])
         IN  [r.st EXCEPT !.final = AppendTo(@, current, <<l.v, r.v>>)]

\* Steps 4 and 5 for one rule of A
ConvertRule(st, A, rule) ==
    IF Len(rule) = 1 /\ ~cnf_is_variable(rule[1])
    THEN [st EXCEPT !.final = AppendTo(@, A, rule)]
    ELSE IF Len(rule) = 2
    THEN LET l == LiftSymbol(st, rule[1])
             r == LiftSymbol(l.st, rule[2])
         IN  [r.st EXCEPT !.final = AppendTo(@, A, <<l.v, r.v>>)]
    ELSE BinarizeChain(st, A, rule)

RECURSIVE ConvertRules(_, _, _)
ConvertRules(st, A, rules) ==
    IF rules = <<>> \/ st.err # "" THEN st
    ELSE ConvertRules(ConvertRule(st, A, Head(rules)), A, Tail(rules))

RECURSIVE ConvertItems(_, _)
\* for A, rules in grammar.items(): final[A] = []; ...
ConvertItems(st, items) ==
    IF items = <<>> \/ st.err # "" THEN st
    ELSE ConvertItems(
             ConvertRules([st EXCEPT !.final = Put(@, Head(items).k, <<>>)],
                          Head(items).k, Head(items).v),
             Tail(items))

RECURSIVE AddWrapperRules(_, _)
\* Step 6: for v, t in nonterm_map.items(): final[v].append([t])
AddWrapperRules(final, nonterm_map) ==
    IF nonterm_map = <<>> THEN final
    ELSE AddWrapperRules(AppendTo(final, Head(nonterm_map).k, <<Head(nonterm_map).v>>),
                         Tail(nonterm_map))

RECURSIVE DropEmptyLists(_)
\* {A: rules for A, rules in final.items() if len(rules) > 0}
DropEmptyLists(final) ==
    IF final = <<>> THEN <<>>
    ELSE (IF Len(Head(final).v) > 0 THEN <<Head(final)>> ELSE <<>>)
         \o DropEmptyLists(Tail(final))

\* the grammar after Steps 1, 2 and 2b (new start) and the start variable chosen
WithNewStart(grammar, start_var) ==
    LET nullable == NullableSet(grammar)
        noeps == EliminateEpsilon(grammar, nullable)
        S_new == NewStartName(Append(start_var, APOS), noeps)
    IN  [grammar |-> IF start_var \in nullable
                     THEN Put(noeps, S_new, << <<start_var>>, <<EPS>> >>)
                     ELSE noeps,
         current_start |-> IF start_var \in nullable THEN S_new ELSE start_var,
         all_vars |-> Keys(grammar) \cup
                      (IF start_var \in nullable THEN {S_new} ELSE {})]

\* Steps 0 to 3: the grammar after unit elimination
BeforeLifting(grammar, start_var) ==
    LET withstart == WithNewStart(grammar, start_var)
    IN  [withstart EXCEPT !.grammar = EliminateUnits(@)]

\* convert_to_cnf(grammar, start_var): the returned dict, or the exception
\* (raised); fresh is the list of the names fresh_var returned during the call
convert_to_cnf(grammar, start_var) ==
    LET pre == BeforeLifting(grammar, start_var)
        st0 == [final |-> <<>>, term_map |-> <<>>, nonterm_map |-> <<>>,
                counter |-> 1, all_vars |-> pre.all_vars, fresh |-> <<>>, err |-> ""]
        st == ConvertItems(st0, pre.grammar)
    IN  IF st.err # ""
        THEN [raised |-> st.err]
        ELSE [raised |-> "",
              grammar |-> DropEmptyLists(AddWrapperRules(st.final, st.nonterm_map)),
              start_var |-> pre.current_start,
              term_map |-> st.term_map,
              nonterm_map |-> st.nonterm_map,
              fresh |-> st.fresh]

----------------------------------------------------------------------------
(* logic/cyk.py : run_cyk, reconstruct_tree *)

\* an entry is <<A, tok>> or <<A, k, left_entry, right_entry>>; table[i][j] is
\* a list of entries, with i and j counted from 0 as in the code

\* [entry for entry in cell if entry[0] == B]
Matches(cell, B) == SelectSeq(cell, LAMBDA entry : entry[1] = B)

RECURSIVE DiagRules(_, _, _)
DiagRules(A, rules, tok) ==
    IF rules = <<>> THEN <<>>
    ELSE (IF Len(Head(rules)) = 1 /\ Head(rules)[1] = tok THEN << <<A, tok>> >> ELSE <<>>)
         \o DiagRules(A, Tail(rules), tok)

RECURSIVE DiagCell(_, _)
\* Step 1 for one token: every rule A -> tok, in grammar order
DiagCell(items, tok) ==
    IF items = <<>> THEN <<>>
    ELSE DiagRules(Head(items).k, Head(items).v, tok) \o DiagCell(Tail(items), tok)

RECURSIVE CombineRulesNoCheck(_, _, _, _, _, _)
\* mutant of CombineRules: the entry is appended without the "existing" test
CombineRulesNoCheck(cell, A, rules, left_cell, right_cell, k) ==
    IF rules = <<>> THEN cell
    ELSE LET rule == Head(rules)
         IN  IF Len(rule) # 2
             THEN CombineRulesNoCheck(cell, A, Tail(rules), left_cell, right_cell, k)
             ELSE LET b_matches == Matches(left_cell, rule[1])
                      c_matches == Matches(right_cell, rule[2])
                  IN  IF b_matches = <<>> \/ c_matches = <<>>
                      THEN CombineRulesNoCheck(cell, A, Tail(rules), left_cell, right_cell, k)
                      ELSE CombineRulesNoCheck(Append(cell, <<A, k, b_matches[1], c_matches[1]>>),
                                               A, Tail(rules), left_cell, right_cell, k)

RECURSIVE CombineRules(_, _, _, _, _, _)
\* for rule in rules: the A -> B C rules of one variable at one split k
CombineRules(cell, A, rules, left_cell, right_cell, k) ==
    IF rules = <<>> THEN cell
    ELSE LET rule == Head(rules)
         IN  IF Len(rule) # 2
             THEN CombineRules(cell, A, Tail(rules), left_cell, right_cell, k)
             ELSE LET b_matches == Matches(left_cell, rule[1])
                      c_matches == Matches(right_cell, rule[2])
                      existing == \E e \in DOMAIN cell : cell[e][1] = A
                  IN  IF b_matches = <<>> \/ c_matches = <<>> \/ existing
                      THEN CombineRules(cell, A, Tail(rules), left_cell, right_cell, k)
                      ELSE CombineRules(Append(cell, <<A, k, b_matches[1], c_matches[1]>>),
                                        A, Tail(rules), left_cell, right_cell, k)

RECURSIVE CombineItems(_, _, _, _, _)
\* for A, rules in cnf_grammar.items()
CombineItems(cell, items, left_cell, right_cell, k) ==
    IF items = <<>> THEN cell
    ELSE CombineItems(
             CombineRules(cell, Head(items).k, Head(items).v, left_cell, right_cell, k),
             Tail(items), left_cell, right_cell, k)

RECURSIVE FillSplits(_, _, _, _, _)
\* for k in range(i, j)
FillSplits(table, cnf_grammar, i, j, k) ==
    IF k >= j THEN table
    ELSE LET left_cell == table[i][k]
             right_cell == table[k + 1][j]
         IN  IF left_cell = <<>> \/ right_cell = <<>>
             THEN FillSplits(table, cnf_grammar, i, j, k + 1)
             ELSE FillSplits(
                      [table EXCEPT ![i][j] =
                          CombineItems(@, cnf_grammar, left_cell, right_cell, k)],
                      cnf_grammar, i, j, k + 1)

RECURSIVE FillStarts(_, _, _, _, _)
\* for i in range(0, n - length + 1)
FillStarts(table, cnf_grammar, n, length, i) ==
    IF i > n - length THEN table
    ELSE FillStarts(FillSplits(table, cnf_grammar, i, i + length - 1, i),
                    cnf_grammar, n, length, i + 1)

RECURSIVE FillLengths(_, _, _, _)
\* for length in range(2, n + 1)
FillLengths(table, cnf_grammar, n, length) ==
    IF length > n THEN table
    ELSE FillLengths(FillStarts(table, cnf_grammar, n, length, 0),
                     cnf_grammar, n, length + 1)

run_cyk(cnf_grammar, start_var, tokens) ==
    LET n == Len(tokens)
    IN  IF n = 0 THEN [table |-> <<>>, success |-> FALSE]
        ELSE LET diag == [i \in 0..(n - 1) |-> [j \in 0..(n - 1) |->
                             IF i = j THEN DiagCell(cnf_grammar, tokens[i + 1]) ELSE <<>>]]
                 table == FillLengths(diag, cnf_grammar, n, 2)
             IN  [table |-> table,
                  success |-> \E e \in DOMAIN table[0][n - 1] :
                                  table[0][n - 1][e][1] = start_var]

\* a tree node is [name |-> str] or [name |-> str, children |-> list of nodes]
Leaf(name) == [name |-> name]
Node(name, children) == [name |-> name, children |-> children]
HasChildren(node) == "children" \in DOMAIN node

\* f"\"{t}\""
Quoted(t) == <<QUOTE>> \o t \o <<QUOTE>>
\* f"ERROR:{variable}"
ErrorName(variable) == <<"E", "R", "R", "O", "R", ":">> \o variable

\* name.startswith("X")
StartsWithX(name) == Len(name) >= 1 /\ name[1] = "X"

\* mutant of append_child: the children of a flattened node are not spliced in
append_child_unspliced(child, nonterm_map) ==
    IF StartsWithX(child.name) /\ ~Has(nonterm_map, child.name)
    THEN <<>>
    ELSE <<child>>

\* append_child(child): what it appends to children
append_child(child, nonterm_map) ==
    IF StartsWithX(child.name) /\ ~Has(nonterm_map, child.name)
    THEN IF HasChildren(child) THEN child.children ELSE <<>>
    ELSE <<child>>

RECURSIVE reconstruct_tree(_, _, _, _, _)
reconstruct_tree(table, i, j, variable, nonterm_map) ==
    LET candidates == Matches(table[i][j], variable)
    IN  IF candidates = <<>> THEN Leaf(ErrorName(variable))
        ELSE LET entry == candidates[1]
             IN  IF Len(entry) = 2
                 THEN IF Has(nonterm_map, entry[1])
                      THEN Leaf(Quoted(Get(nonterm_map, entry[1])))
                      ELSE Node(entry[1], <<Leaf(Quoted(entry[2]))>>)
                 ELSE LET k == entry[2]
                          left_child == reconstruct_tree(table, i, k, entry[3][1], nonterm_map)
                          right_child == reconstruct_tree(table, k + 1, j, entry[4][1], nonterm_map)
                      IN  Node(entry[1], append_child(left_child, nonterm_map)
                                         \o append_child(right_child, nonterm_map))

----------------------------------------------------------------------------
(* logic/tree_builder.py : simplify_node, flatten_tree *)

RECURSIVE flatten_tree(_)
flatten_tree(node) ==
    LET children == IF HasChildren(node) THEN node.children ELSE <<>>
    IN  IF children # <<>>
        THEN Node(node.name, [c \in DOMAIN children |-> flatten_tree(children[c])])
        ELSE Leaf(node.name)

\* a Python list that stands where a tree node is expected
ListOf(items) == [list |-> items]
IsDict(node) == "list" \notin DOMAIN node

\* name.startswith("X") and any(c.isdigit() for c in name[1:])
IsIntermediateName(name) ==
    StartsWithX(name) /\ \E c \in 2..Len(name) : name[c] \in Digit

RECURSIVE simplify_node_shallow(_)
\* mutant of simplify_node: the only child of an intermediate node is returned
\* as it is
simplify_node_shallow(node) ==
    IF ~IsDict(node) THEN node
    ELSE LET name == node.name
             children == IF HasChildren(node) THEN node.children ELSE <<>>
         IN  IF IsIntermediateName(name) /\ children # <<>>
             THEN IF Len(children) = 1
                  THEN children[1]
                  ELSE ListOf([c \in DOMAIN children |-> simplify_node_shallow(children[c])])
             ELSE Node(name, [c \in DOMAIN children |-> simplify_node_shallow(children[c])])

RECURSIVE simplify_node(_)
\* the value returned: a node with "children", or a list when an intermediate
\* node with several children is dissolved
simplify_node(node) ==
    IF ~IsDict(node) THEN node
    ELSE LET name == node.name
             children == IF HasChildren(node) THEN node.children ELSE <<>>
         IN  IF IsIntermediateName(name) /\ children # <<>>
             THEN IF Len(children) = 1
                  THEN simplify_node(children[1])
                  ELSE ListOf([c \in DOMAIN children |-> simplify_node(children[c])])
             ELSE Node(name, [c \in DOMAIN children |-> simplify_node(children[c])])

----------------------------------------------------------------------------
(* app.py : the active grammar and the request handlers *)

\* a slot holds None or a value
NoneVal == [none |-> TRUE, val |-> <<>>]
Some(x) == [none |-> FALSE, val |-> x]
\* None where a str is expected: equal to no str
NoneStr == <<"None">>

RECURSIVE Split(_, _)
\* str.split(): the maximal runs of non-space characters; word is the run
\* being read
Split(str, word) ==
    IF str = <<>> THEN (IF word = <<>> THEN <<>> ELSE <<word>>)
    ELSE IF Head(str) = SPACE
         THEN (IF word = <<>> THEN <<>> ELSE <<word>>) \o Split(Tail(str), <<>>)
         ELSE Split(Tail(str), Append(word, Head(str)))

RECURSIVE JoinSpaces(_)
\* " ".join(words)
JoinSpaces(words) ==
    IF words = <<>> THEN <<>>
    ELSE IF Len(words) = 1 THEN words[1]
    ELSE words[1] \o <<SPACE>> \o JoinSpaces(Tail(words))

\* mutant of set_grammar: a rejected grammar clears the two grammar slots
set_grammar_clearing(g, data, iteration_order) ==
    LET start_var == Strip(data.start)
        failure == [route |-> "set_grammar", success |-> FALSE, message |-> "Grammar Error"]
        \* lines 45-57, original_cfg and cnf_result being the values returned
        Converted(original_cfg, cnf_result) ==
            IF cnf_result.raised # "" THEN [g |-> g, response |-> failure]
            ELSE LET g2 == [g EXCEPT !.GLOBAL_ORIGINAL_CFG = Some(original_cfg.grammar),
                                     !.GLOBAL_CNF = Some(cnf_result.grammar)]
                 IN  IF "start" \notin DOMAIN cnf_result       \* cnf_result["start"]
                     THEN [g |-> g2, response |-> failure]
                     ELSE [g |-> [g2 EXCEPT !.GLOBAL_START = Some(cnf_result.start),
                                            !.GLOBAL_TERM_MAP = Some(cnf_result.term_map),
                                            !.GLOBAL_NONTERM_MAP = Some(cnf_result.nonterm_map)],
                           response |-> [route |-> "set_grammar", success |-> TRUE,
                                         message |-> "Grammar successfully parsed and converted to CNF.",
                                         cnf |-> cnf_result.grammar]]
        \* lines 42-45, original_cfg being the value returned
        Validated(original_cfg) ==
            IF ~original_cfg.ok
            THEN [g |-> [g EXCEPT !.GLOBAL_ORIGINAL_CFG = NoneVal, !.GLOBAL_CNF = NoneVal],
                  response |-> failure]
            ELSE CHOOSE r \in {Converted(original_cfg, cnf_result) :
                                 cnf_result \in {convert_to_cnf(original_cfg.grammar, start_var)}} : TRUE
    IN  CHOOSE r \in {Validated(original_cfg) :
                        original_cfg \in {parse_cfg(start_var, data.productions, iteration_order)}} : TRUE

\* set_grammar: the slots after the request and the JSON response;
\* g is the record of the five slots
set_grammar(g, data, iteration_order) ==
    LET start_var == Strip(data.start)
        failure == [route |-> "set_grammar", success |-> FALSE, message |-> "Grammar Error"]
        \* lines 45-57, original_cfg and cnf_result being the values returned
        Converted(original_cfg, cnf_result) ==
            IF cnf_result.raised # "" THEN [g |-> g, response |-> failure]
            ELSE LET g2 == [g EXCEPT !.GLOBAL_ORIGINAL_CFG = Some(original_cfg.grammar),
                                     !.GLOBAL_CNF = Some(cnf_result.grammar)]
                 IN  IF "start" \notin DOMAIN cnf_result       \* cnf_result["start"]
                     THEN [g |-> g2, response |-> failure]
                     ELSE [g |-> [g2 EXCEPT !.GLOBAL_START = Some(cnf_result.start),
                                            !.GLOBAL_TERM_MAP = Some(cnf_result.term_map),
                                            !.GLOBAL_NONTERM_MAP = Some(cnf_result.nonterm_map)],
                           response |-> [route |-> "set_grammar", success |-> TRUE,
                                         message |-> "Grammar successfully parsed and converted to CNF.",
                                         cnf |-> cnf_result.grammar]]
        \* lines 42-45, original_cfg being the value returned
        Validated(original_cfg) ==
            IF ~original_cfg.ok
            THEN [g |-> g, response |-> failure]
            ELSE CHOOSE r \in {Converted(original_cfg, cnf_result) :
                                 cnf_result \in {convert_to_cnf(original_cfg.grammar, start_var)}} : TRUE
    IN  CHOOSE r \in {Validated(original_cfg) :
                        original_cfg \in {parse_cfg(start_var, data.productions, iteration_order)}} : TRUE

\* validate: the JSON response; g is the record of the five slots
validate(g, data) ==
    IF g.GLOBAL_CNF.none
    THEN [route |-> "validate", success |-> FALSE, message |-> "Please set a grammar first."]
    ELSE
    LET toks == Split(Strip(data.string), <<>>)
        start == IF g.GLOBAL_START.none THEN NoneStr ELSE g.GLOBAL_START.val
    IN
    IF Len(toks) = 0
    THEN IF g.GLOBAL_ORIGINAL_CFG.none
         THEN [route |-> "validate", success |-> FALSE, message |-> "Internal Server Error"]
         ELSE IF Contains(GetOr(g.GLOBAL_ORIGINAL_CFG.val, start), <<EPS>>)
         THEN [route |-> "validate", success |-> TRUE, valid |-> TRUE,
               message |-> "ε (empty string) is derivable.",
               tree |-> [name |-> Quoted(EPS)]]
         ELSE [route |-> "validate", success |-> TRUE, valid |-> FALSE,
               message |-> "Empty string is NOT derivable."]
    ELSE
    LET \* lines 121-149, result being the value returned by run_cyk
        Recognized(result) ==
            IF ~result.success
            THEN [route |-> "validate", success |-> TRUE, valid |-> FALSE,
                  message |-> "String is NOT derivable."]
            ELSE IF g.GLOBAL_NONTERM_MAP.none
            THEN [route |-> "validate", success |-> FALSE, message |-> "Validation Error"]
            ELSE [route |-> "validate", success |-> TRUE, valid |-> TRUE,
                  message |-> "String is derivable.",
                  tree |-> flatten_tree(reconstruct_tree(result.table, 0, Len(toks) - 1,
                                                         start, g.GLOBAL_NONTERM_MAP.val))]
    IN  CHOOSE r \in {Recognized(result) :
                        result \in {run_cyk(g.GLOBAL_CNF.val, start, toks)}} : TRUE

----------------------------------------------------------------------------
(* Inputs *)

MaxRuleLen == 3
MaxTokens == 3

S == <<"S">>
A == <<"A">>
B == <<"B">>
Z == <<"Z">>
a == <<"a">>
b == <<"b">>
z == <<"z">>
NP == <<"N", "P">>
VP == <<"V", "P">>
Det == <<"D", "e", "t">>
N == <<"N">>
V == <<"V">>
the == <<"t", "h", "e">>
dog == <<"d", "o", "g">>
cat == <<"c", "a", "t">>
runs == <<"r", "u", "n", "s">>
chased == <<"c", "h", "a", "s", "e", "d">>
X1 == <<"X", "1">>
SPrime == <<"S", "'">>
UpperTerminal == <<"A", "-">>

Item(key, val) == [k |-> key, v |-> val]
Entry(lhs, rhs) == [lhs |-> lhs, rhs |-> rhs]

SeqsUpTo(set, n) == UNION {[1..m -> set] : m \in 1..n}

\* an input of the pipeline: the arguments of parse_cfg, and the words the
\* token sequences tried on the grammar are made of
Input(start, productions, words) ==
    [start |-> start, productions |-> productions, words |-> words]

\* rules over the variables S and A and the terminal a, and the epsilon rule
GenRules == SeqsUpTo({S, A, a}, MaxRuleLen) \cup {<<EPS>>}

\* grammars of one or two rules, in the mapping form of the request
GenGrammars ==
    {<<Item(S, <<r>>)>> : r \in GenRules}
    \cup {<<Item(S, <<r[1], r[2]>>)>> : r \in GenRules \X GenRules}
    \cup {<<Item(S, <<r[1]>>), Item(A, <<r[2]>>)>> : r \in GenRules \X GenRules}

GenInputs == {Input(S, DictProductions(g), {a, b}) : g \in GenGrammars}

\* Scenario A of the specification
ScenarioA ==
    Input(S, DictProductions(<<
        Item(S, << <<NP, VP>> >>),
        Item(NP, << <<Det, N>>, <<N>> >>),
        Item(VP, << <<V, NP>>, <<V>> >>),
        Item(Det, << <<the>>, <<a>> >>),
        Item(N, << <<dog>>, <<cat>> >>),
        Item(V, << <<runs>>, <<chased>> >>) >>), {the, dog, runs})
\* Scenario B: S -> ε is the only rule
ScenarioB == Input(S, DictProductions(<<Item(S, << <<EPS>> >>)>>), {a})
\* Scenario C: Z is disconnected from the start
ScenarioC ==
    Input(S, DictProductions(<<Item(S, << <<a>> >>), Item(Z, << <<z>> >>)>>), {a, z})
\* Scenario D: left recursion without a terminal base case
ScenarioD == Input(S, DictProductions(<<Item(S, << <<S, a>> >>)>>), {a})
\* Scenario E: an ambiguous grammar
ScenarioE == Input(S, DictProductions(<<Item(S, << <<S, S>>, <<a>> >>)>>), {a})
\* a^n b^n: two terminals lifted, one rule binarized
AnBn == Input(S, DictProductions(<<Item(S, << <<a, S, b>>, <<a, b>> >>)>>), {a, b})
\* a grammar that already has a variable X1
WithX1 ==
    Input(S, DictProductions(<<Item(S, << <<a, X1, b>> >>),
                               Item(X1, << <<b, a>> >>)>>), {a, b})
\* a grammar that already has a variable S' and an epsilon rule of S
WithSPrime ==
    Input(S, DictProductions(<<Item(S, << <<SPrime, a>>, <<EPS>> >>),
                               Item(SPrime, << <<b>> >>)>>), {a, b})
\* a terminal that begins with an uppercase letter
WithUpperTerminal ==
    Input(S, DictProductions(<<Item(S, << <<UpperTerminal, b>>, <<a>> >>)>>),
          {a, b, UpperTerminal})
\* a chain of unit rules
UnitChain ==
    Input(S, DictProductions(<<Item(S, << <<A>> >>), Item(A, << <<B>> >>),
                               Item(B, << <<b>> >>)>>), {b})
\* a rule that mentions a variable generating nothing
WithUseless ==
    Input(S, DictProductions(<<Item(S, << <<A, b>>, <<a>> >>),
                               Item(A, << <<A, a>> >>)>>), {a, b})
\* the list form, with padded names, a blank symbol and an empty alternative
ListForm ==
    Input(<<SPACE, "S">>,
          ListProductions(<<Entry(<<"S", SPACE>>, <<<<SPACE, "a">>, <<SPACE>>, A>>),
                            Entry(A, <<>>),
                            Entry(A, <<b>>),
                            Entry(S, <<b, S>>)>>), {a, b})
\* a start variable that derives the empty string, and the token "ε" among
\* the tokens of the strings tried
EpsilonToken ==
    Input(S, DictProductions(<<Item(S, << <<a, S>>, <<EPS>> >>)>>), {a, EPS})
\* a variable of the grammar named X1 below the start, in a short string
XBelowStart ==
    Input(S, DictProductions(<<Item(S, << <<a, X1>> >>),
                               Item(X1, << <<b, b>>, <<b>> >>)>>), {a, b})

Scenarios ==
    {ScenarioA, ScenarioB, ScenarioC, ScenarioD, ScenarioE, AnBn, WithX1,
     WithSPrime, WithUpperTerminal, UnitChain, WithUseless, ListForm,
     EpsilonToken, XBelowStart}

Inputs == GenInputs \cup Scenarios

\* the token sequences tried on an input
TokenSeqs(words) == {<<>>} \cup SeqsUpTo(words, MaxTokens)

\* the trees given to simplify_node: three levels, the names those of an
\* original variable, of an intermediate variable and of a variable that
\* starts with X without a digit
MaxChildren == 2
TreeNames == {S, X1, <<"X">>}
TreeLeaves == {Leaf(n) : n \in TreeNames}
TreeLevel1 ==
    {Node(n, <<>>) : n \in TreeNames}
    \cup {Node(n, cs) : n \in TreeNames, cs \in SeqsUpTo(TreeLeaves, MaxChildren)}
TreeLevel2 ==
    {Node(n, <<c>>) : n \in TreeNames, c \in TreeLevel1}
    \cup {Node(n, <<c, d>>) : n \in TreeNames, c \in TreeLevel1, d \in TreeLevel1 \cup TreeLeaves}
    \cup {Node(n, <<c, d>>) : n \in TreeNames, c \in TreeLeaves, d \in TreeLevel1}
Trees == TreeLeaves \cup TreeLevel1 \cup TreeLevel2

\* the requests of the concurrent server: at most MaxRequests set_grammar
\* requests are handled in a behaviour
MaxRequests == 2
ConcurrentGrammars ==
    {[start |-> i.start, productions |-> i.productions] : i \in {ScenarioB, AnBn, EpsilonToken}}
    \cup {[start |-> a, productions |-> AnBn.productions]}
ConcurrentStrings == {[string |-> <<>>], [string |-> a], [string |-> JoinSpaces(<<a, b>>)]}

\* the requests the handlers are given
GrammarRequests ==
    {[start |-> i.start, productions |-> i.productions] :
        i \in {ScenarioB, ScenarioD, ScenarioE, AnBn, WithSPrime, WithUseless, ListForm}}
    \cup {[start |-> <<>>, productions |-> AnBn.productions],
          [start |-> a, productions |-> AnBn.productions],
          [start |-> A, productions |-> AnBn.productions]}
StringRequests ==
    {[string |-> JoinSpaces(t)] : t \in TokenSeqs({a, b})}
    \cup {[string |-> <<SPACE, "a", SPACE, SPACE, "b", SPACE>>]}

----------------------------------------------------------------------------
(* State *)

VARIABLES
    GLOBAL_ORIGINAL_CFG, GLOBAL_CNF, GLOBAL_START, GLOBAL_TERM_MAP,
    GLOBAL_NONTERM_MAP,   \* the slots of app.py
    request,    \* the request handled last
    response,   \* its response
    pc,         \* position of the function pipeline
    input,      \* the input of the pipeline
    parsed,     \* result of parse_cfg
    reparsed,   \* result of parse_cfg on its own output
    cnf,        \* result of convert_to_cnf
    tokens,     \* the token sequence given to run_cyk
    cyk,        \* result of run_cyk
    tree,       \* flatten_tree(reconstruct_tree(...))
    unsimplified, \* the tree given to simplify_node
    simplified,   \* simplify_node(unsimplified)
    resimplified, \* simplify_node(simplified)
    setter,     \* the thread that handles set_grammar requests: position, locals
    validator,  \* the thread that handles validate requests: position, locals
    origin      \* for each slot, the number of the request that assigned it

slots == <<GLOBAL_ORIGINAL_CFG, GLOBAL_CNF, GLOBAL_START, GLOBAL_TERM_MAP,
           GLOBAL_NONTERM_MAP>>
app == <<GLOBAL_ORIGINAL_CFG, GLOBAL_CNF, GLOBAL_START, GLOBAL_TERM_MAP,
         GLOBAL_NONTERM_MAP, request, response>>
pipeline == <<pc, input, parsed, reparsed, cnf, tokens, cyk, tree>>
simplifier == <<unsimplified, simplified, resimplified>>
threads == <<setter, validator, origin>>
vars == <<GLOBAL_ORIGINAL_CFG, GLOBAL_CNF, GLOBAL_START, GLOBAL_TERM_MAP,
          GLOBAL_NONTERM_MAP, request, response,
          pc, input, parsed, reparsed, cnf, tokens, cyk, tree,
          unsimplified, simplified, resimplified,
          setter, validator, origin>>

\* the five slots as one record
Globals ==
    [GLOBAL_ORIGINAL_CFG |-> GLOBAL_ORIGINAL_CFG, GLOBAL_CNF |-> GLOBAL_CNF,
     GLOBAL_START |-> GLOBAL_START, GLOBAL_TERM_MAP |-> GLOBAL_TERM_MAP,
     GLOBAL_NONTERM_MAP |-> GLOBAL_NONTERM_MAP]

NoRequest == [route |-> "none"]
NoResponse == [route |-> "none"]
NotRun == [ok |-> FALSE, err |-> "not run", grammar |-> <<>>]
NoCnf == [raised |-> "not run"]
NoCyk == [table |-> <<>>, success |-> FALSE]
NoTree == [name |-> <<>>]
NoInput == Input(<<>>, DictProductions(<<>>), {})

\* app.py lines 14-18
AppInit ==
    /\ GLOBAL_ORIGINAL_CFG = NoneVal
    /\ GLOBAL_CNF = NoneVal
    /\ GLOBAL_START = NoneVal
    /\ GLOBAL_TERM_MAP = NoneVal
    /\ GLOBAL_NONTERM_MAP = NoneVal
    /\ request = NoRequest
    /\ response = NoResponse

\* no request is being handled; no slot has been assigned
ThreadsIdle ==
    /\ setter = [pc |-> "idle", id |-> 0]
    /\ validator = [pc |-> "idle", read |-> {}, answered |-> FALSE]
    /\ origin = [GLOBAL_ORIGINAL_CFG |-> 0, GLOBAL_CNF |-> 0, GLOBAL_START |-> 0,
                 GLOBAL_TERM_MAP |-> 0, GLOBAL_NONTERM_MAP |-> 0]

SimplifierIdle ==
    /\ unsimplified = NoTree
    /\ simplified = NoTree
    /\ resimplified = NoTree

PipelineIdle ==
    /\ parsed = NotRun
    /\ reparsed = NotRun
    /\ cnf = NoCnf
    /\ tokens = <<>>
    /\ cyk = NoCyk
    /\ tree = NoTree

----------------------------------------------------------------------------
(* The server: requests handled one at a time *)

Init ==
    /\ AppInit
    /\ ThreadsIdle
    /\ pc = "idle"
    /\ input = NoInput
    /\ PipelineIdle
    /\ SimplifierIdle

\* POST /set_grammar
SetGrammar ==
    \E data \in GrammarRequests : \E order \in IterationOrders :
        \E r \in {set_grammar(Globals, data, order)} :
            /\ GLOBAL_ORIGINAL_CFG' = r.g.GLOBAL_ORIGINAL_CFG
            /\ GLOBAL_CNF' = r.g.GLOBAL_CNF
            /\ GLOBAL_START' = r.g.GLOBAL_START
            /\ GLOBAL_TERM_MAP' = r.g.GLOBAL_TERM_MAP
            /\ GLOBAL_NONTERM_MAP' = r.g.GLOBAL_NONTERM_MAP
            /\ request' = [route |-> "set_grammar", data |-> data, order |-> order]
            /\ response' = r.response
            /\ UNCHANGED pipeline
            /\ UNCHANGED simplifier
            /\ UNCHANGED threads

\* POST /validate
Validate ==
    \E data \in StringRequests :
        /\ request' = [route |-> "validate", data |-> data]
        /\ response' = validate(Globals, data)
        /\ UNCHANGED slots
        /\ UNCHANGED pipeline
        /\ UNCHANGED simplifier
        /\ UNCHANGED threads

Next == SetGrammar \/ Validate

Spec == Init /\ [][Next]_vars

----------------------------------------------------------------------------
(* The functions applied one after the other to an input *)

PipelineInit ==
    /\ AppInit
    /\ ThreadsIdle
    /\ pc = "input"
    /\ input \in Inputs
    /\ PipelineIdle
    /\ SimplifierIdle

\* original_cfg = parse_cfg(start_var, productions)
Parse ==
    /\ pc = "input"
    /\ \E order \in IterationOrders :
           parsed' = parse_cfg(input.start, input.productions, order)
    /\ pc' = IF parsed'.ok THEN "parsed" ELSE "rejected"
    /\ UNCHANGED <<input, reparsed, cnf, tokens, cyk, tree>>
    /\ UNCHANGED app
    /\ UNCHANGED simplifier
    /\ UNCHANGED threads

\* parse_cfg applied to the grammar it returned
Revalidate ==
    /\ pc = "parsed"
    /\ \E order \in IterationOrders :
           reparsed' = parse_cfg(input.start, DictProductions(parsed.grammar), order)
    /\ pc' = "revalidated"
    /\ UNCHANGED <<input, parsed, cnf, tokens, cyk, tree>>
    /\ UNCHANGED app
    /\ UNCHANGED simplifier
    /\ UNCHANGED threads

\* cnf_result = convert_to_cnf(original_cfg, start_var)
Convert ==
    /\ pc = "parsed"
    /\ cnf' = convert_to_cnf(parsed.grammar, Strip(input.start))
    /\ pc' = IF cnf'.raised = "" THEN "converted" ELSE "raised"
    /\ UNCHANGED <<input, parsed, reparsed, tokens, cyk, tree>>
    /\ UNCHANGED app
    /\ UNCHANGED simplifier
    /\ UNCHANGED threads

\* result = run_cyk(cnf, start, tokens)
Recognize ==
    /\ pc = "converted"
    /\ \E t \in TokenSeqs(input.words) :
           /\ tokens' = t
           /\ cyk' = run_cyk(cnf.grammar, cnf.start_var, t)
    /\ pc' = IF cyk'.success THEN "accepted" ELSE "not accepted"
    /\ UNCHANGED <<input, parsed, reparsed, cnf, tree>>
    /\ UNCHANGED app
    /\ UNCHANGED simplifier
    /\ UNCHANGED threads

\* tree = flatten_tree(reconstruct_tree(table, 0, n - 1, start, nonterm_map))
Reconstruct ==
    /\ pc = "accepted"
    /\ tree' = flatten_tree(reconstruct_tree(cyk.table, 0, Len(tokens) - 1,
                                             cnf.start_var, cnf.nonterm_map))
    /\ pc' = "tree"
    /\ UNCHANGED <<input, parsed, reparsed, cnf, tokens, cyk>>
    /\ UNCHANGED app
    /\ UNCHANGED simplifier
    /\ UNCHANGED threads

PipelineNext == Parse \/ Revalidate \/ Convert \/ Recognize \/ Reconstruct

Pipeline == PipelineInit /\ [][PipelineNext]_vars

----------------------------------------------------------------------------
(* The simplification pass applied to a tree, and to its own result *)

SimplifierInit ==
    /\ AppInit
    /\ ThreadsIdle
    /\ pc = "unsimplified"
    /\ input = NoInput
    /\ PipelineIdle
    /\ unsimplified \in Trees
    /\ simplified = NoTree
    /\ resimplified = NoTree

\* simplified = simplify_node(tree)
Simplify ==
    /\ pc = "unsimplified"
    /\ simplified' = simplify_node(unsimplified)
    /\ pc' = "simplified"
    /\ UNCHANGED <<unsimplified, resimplified>>
    /\ UNCHANGED <<input, parsed, reparsed, cnf, tokens, cyk, tree>>
    /\ UNCHANGED app
    /\ UNCHANGED threads

\* the pass run on an already simplified tree
SimplifyAgain ==
    /\ pc = "simplified"
    /\ resimplified' = simplify_node(simplified)
    /\ pc' = "resimplified"
    /\ UNCHANGED <<unsimplified, simplified>>
    /\ UNCHANGED <<input, parsed, reparsed, cnf, tokens, cyk, tree>>
    /\ UNCHANGED app
    /\ UNCHANGED threads

SimplifierNext == Simplify \/ SimplifyAgain

Simplifier == SimplifierInit /\ [][SimplifierNext]_vars

----------------------------------------------------------------------------
(* The server with requests handled concurrently: a thread for set_grammar *)
(* requests and a thread for validate requests, a step being one statement *)
(* that reads or assigns the slots                                          *)

\* set_grammar lines 36-45: the request is read, the grammar validated and
\* converted, all in locals
SetterReceive ==
    /\ setter.pc = "idle"
    /\ setter.id < MaxRequests
    /\ \E data \in ConcurrentGrammars : \E order \in IterationOrders :
       \E original_cfg \in {parse_cfg(Strip(data.start), data.productions, order)} :
       \E cnf_result \in {IF original_cfg.ok
                           THEN convert_to_cnf(original_cfg.grammar, Strip(data.start))
                           ELSE [raised |-> "CFGError"]} :
           /\ request' = [route |-> "set_grammar", data |-> data, order |-> order]
           /\ IF cnf_result.raised # ""
              THEN /\ setter' = [pc |-> "idle", id |-> setter.id + 1]
                   /\ response' = [route |-> "set_grammar", success |-> FALSE,
                                    message |-> "Grammar Error"]
              ELSE /\ setter' = [pc |-> "line 47", id |-> setter.id + 1,
                                  original_cfg |-> original_cfg.grammar,
                                  cnf_result |-> cnf_result]
                   /\ UNCHANGED response
    /\ UNCHANGED <<slots, validator, origin>>
    /\ UNCHANGED pipeline
    /\ UNCHANGED simplifier

\* set_grammar lines 47-63: the next statement
SetterAssign ==
    /\ setter.pc \in {"line 47", "line 48", "line 49", "line 50", "line 51"}
    /\ CASE setter.pc = "line 47" ->
              /\ GLOBAL_ORIGINAL_CFG' = Some(setter.original_cfg)
              /\ origin' = [origin EXCEPT !.GLOBAL_ORIGINAL_CFG = setter.id]
              /\ setter' = [setter EXCEPT !.pc = "line 48"]
              /\ UNCHANGED <<GLOBAL_CNF, GLOBAL_START, GLOBAL_TERM_MAP,
                             GLOBAL_NONTERM_MAP, response>>
         [] setter.pc = "line 48" ->
              /\ GLOBAL_CNF' = Some(setter.cnf_result.grammar)
              /\ origin' = [origin EXCEPT !.GLOBAL_CNF = setter.id]
              /\ setter' = [setter EXCEPT !.pc = "line 49"]
              /\ UNCHANGED <<GLOBAL_ORIGINAL_CFG, GLOBAL_START, GLOBAL_TERM_MAP,
                             GLOBAL_NONTERM_MAP, response>>
         [] setter.pc = "line 49" ->
              IF "start" \in DOMAIN setter.cnf_result
              THEN /\ GLOBAL_START' = Some(setter.cnf_result.start)
                   /\ origin' = [origin EXCEPT !.GLOBAL_START = setter.id]
                   /\ setter' = [setter EXCEPT !.pc = "line 50"]
                   /\ UNCHANGED <<GLOBAL_ORIGINAL_CFG, GLOBAL_CNF, GLOBAL_TERM_MAP,
                                  GLOBAL_NONTERM_MAP, response>>
              ELSE \* KeyError, caught at line 59
                   /\ response' = [route |-> "set_grammar", success |-> FALSE,
                                    message |-> "Grammar Error"]
                   /\ setter' = [pc |-> "idle", id |-> setter.id]
                   /\ UNCHANGED <<slots, origin>>
         [] setter.pc = "line 50" ->
              /\ GLOBAL_TERM_MAP' = Some(setter.cnf_result.term_map)
              /\ origin' = [origin EXCEPT !.GLOBAL_TERM_MAP = setter.id]
              /\ setter' = [setter EXCEPT !.pc = "line 51"]
              /\ UNCHANGED <<GLOBAL_ORIGINAL_CFG, GLOBAL_CNF, GLOBAL_START,
                             GLOBAL_NONTERM_MAP, response>>
         [] setter.pc = "line 51" ->
              /\ GLOBAL_NONTERM_MAP' = Some(setter.cnf_result.nonterm_map)
              /\ origin' = [origin EXCEPT !.GLOBAL_NONTERM_MAP = setter.id]
              /\ setter' = [pc |-> "idle", id |-> setter.id]
              /\ response' = [route |-> "set_grammar", success |-> TRUE,
                               message |-> "Grammar successfully parsed and converted to CNF.",
                               cnf |-> setter.cnf_result.grammar]
              /\ UNCHANGED <<GLOBAL_ORIGINAL_CFG, GLOBAL_CNF, GLOBAL_START,
                             GLOBAL_TERM_MAP>>
    /\ UNCHANGED <<request, validator>>
    /\ UNCHANGED pipeline
    /\ UNCHANGED simplifier

\* validate lines 86-94: GLOBAL_CNF is tested and the string is split
ValidatorReceive ==
    /\ validator.pc = "idle"
    /\ \E data \in ConcurrentStrings :
           /\ request' = [route |-> "validate", data |-> data]
           /\ IF GLOBAL_CNF.none
              THEN /\ response' = [route |-> "validate", success |-> FALSE,
                                    message |-> "Please set a grammar first."]
                   /\ validator' = [pc |-> "idle", read |-> {}, answered |-> FALSE]
              ELSE /\ validator' =
                          [pc |-> IF Split(Strip(data.string), <<>>) = <<>>
                                  THEN "line 100" ELSE "line 121",
                           toks |-> Split(Strip(data.string), <<>>),
                           read |-> {<<"GLOBAL_CNF", origin.GLOBAL_CNF>>},
                           answered |-> FALSE]
                   /\ UNCHANGED response
    /\ UNCHANGED <<slots, setter, origin>>
    /\ UNCHANGED pipeline
    /\ UNCHANGED simplifier

\* the start variable as validate reads it
ReadStart == IF GLOBAL_START.none THEN NoneStr ELSE GLOBAL_START.val

\* validate lines 96-155: the next statement that reads the slots; read
\* collects the slots read with the numbers of the requests that assigned them
ValidatorStep ==
    /\ validator.pc \in {"line 100", "line 121", "line 133"}
    /\ CASE validator.pc = "line 100" ->
              /\ response' =
                     IF Contains(GetOr(GLOBAL_ORIGINAL_CFG.val, ReadStart), <<EPS>>)
                     THEN [route |-> "validate", success |-> TRUE, valid |-> TRUE,
                           message |-> "ε (empty string) is derivable.",
                           tree |-> [name |-> Quoted(EPS)]]
                     ELSE [route |-> "validate", success |-> TRUE, valid |-> FALSE,
                           message |-> "Empty string is NOT derivable."]
              /\ validator' =
                     [pc |-> "idle", answered |-> TRUE,
                      read |-> validator.read
                               \cup {<<"GLOBAL_ORIGINAL_CFG", origin.GLOBAL_ORIGINAL_CFG>>,
                                     <<"GLOBAL_START", origin.GLOBAL_START>>}]
         [] validator.pc = "line 121" ->
              \E result \in {run_cyk(GLOBAL_CNF.val, ReadStart, validator.toks)} :
                  LET read == validator.read
                              \cup {<<"GLOBAL_CNF", origin.GLOBAL_CNF>>,
                                    <<"GLOBAL_START", origin.GLOBAL_START>>}
                  IN  IF ~result.success
                      THEN /\ response' = [route |-> "validate", success |-> TRUE,
                                            valid |-> FALSE,
                                            message |-> "String is NOT derivable."]
                           /\ validator' = [pc |-> "idle", answered |-> TRUE, read |-> read]
                      ELSE /\ validator' = [pc |-> "line 133", answered |-> FALSE,
                                             read |-> read, toks |-> validator.toks,
                                             table |-> result.table]
                           /\ UNCHANGED response
         [] validator.pc = "line 133" ->
              LET read == validator.read
                          \cup {<<"GLOBAL_START", origin.GLOBAL_START>>,
                                <<"GLOBAL_NONTERM_MAP", origin.GLOBAL_NONTERM_MAP>>}
              IN  IF GLOBAL_NONTERM_MAP.none
                  THEN /\ response' = [route |-> "validate", success |-> FALSE,
                                        message |-> "Validation Error"]
                       /\ validator' = [pc |-> "idle", answered |-> FALSE, read |-> read]
                  ELSE /\ response' =
                              [route |-> "validate", success |-> TRUE, valid |-> TRUE,
                               message |-> "String is derivable.",
                               tree |-> flatten_tree(reconstruct_tree(
                                            validator.table, 0, Len(validator.toks) - 1,
                                            ReadStart, GLOBAL_NONTERM_MAP.val))]
                       /\ validator' = [pc |-> "idle", answered |-> TRUE, read |-> read]
    /\ UNCHANGED <<slots, request, setter, origin>>
    /\ UNCHANGED pipeline
    /\ UNCHANGED simplifier

ConcurrentNext == SetterReceive \/ SetterAssign \/ ValidatorReceive \/ ValidatorStep

Concurrent == Init /\ [][ConcurrentNext]_vars

----------------------------------------------------------------------------
(* The standard derivation relation of a validated grammar, as the reference *)
(* the claims are stated against.  A symbol is a variable when the         *)
(* validator says so; D is a set of <<X, i, j>>: X derives w[i+1..j].       *)

SymDerives(x, i, m, w, D) ==
    IF x = EPS THEN m = i
    ELSE IF is_variable(x) THEN <<x, i, m>> \in D
    ELSE m = i + 1 /\ w[m] = x

RECURSIVE SeqDerives(_, _, _, _, _, _)
SeqDerives(rule, p, i, j, w, D) ==
    IF p > Len(rule) THEN i = j
    ELSE \E m \in i..j : SymDerives(rule[p], i, m, w, D)
                         /\ SeqDerives(rule, p + 1, m, j, w, D)

DerivStep(G, w, D) ==
    {t \in Keys(G) \X (0..Len(w)) \X (0..Len(w)) :
        /\ t[2] <= t[3]
        /\ \E r \in DOMAIN Get(G, t[1]) : SeqDerives(Get(G, t[1])[r], 1, t[2], t[3], w, D)}

RECURSIVE DerivFix(_, _, _)
DerivFix(G, w, D) ==
    LET D2 == DerivStep(G, w, D)
    IN  IF D2 = D THEN D ELSE DerivFix(G, w, D2)

\* w is derivable from X in G
Derivable(G, X, w) == <<X, 0, Len(w)>> \in DerivFix(G, w, {})

\* the start variable as parse_cfg and the handlers use it
StartVar == Strip(input.start)

----------------------------------------------------------------------------
(* Claims *)

\* C1: language preservation. For every grammar G returned by parse_cfg with
\* start S and every non-empty token sequence s, run_cyk on convert_to_cnf(G, S)
\* reports success if and only if s is derivable from S in G.
C1_LanguagePreserved ==
    (pc \in {"accepted", "not accepted"} /\ tokens # <<>>)
        => (cyk.success <=> Derivable(parsed.grammar, StartVar, tokens))

\* the symbols of the returned grammar that are variables: those of the
\* validated grammar, the names fresh_var returned and the returned start
CnfVariables == Keys(parsed.grammar) \cup SeqToSet(cnf.fresh) \cup {cnf.start_var}
IsCnfVariable(x) == x \in CnfVariables
IsCnfTerminal(x) == x # EPS /\ ~is_variable(x) /\ x \notin CnfVariables

\* C2: CNF shape. Every rule of the grammar convert_to_cnf returns, other than
\* an epsilon rule of the start variable, is exactly one terminal or exactly
\* two variables: no unit rule, no rule of three or more symbols, no terminal
\* next to another symbol.
C2_CnfShape ==
    pc = "converted" =>
        \A i \in DOMAIN cnf.grammar : \A j \in DOMAIN cnf.grammar[i].v :
            LET rule == cnf.grammar[i].v[j]
            IN  \/ rule = <<EPS>> /\ cnf.grammar[i].k = cnf.start_var
                \/ Len(rule) = 1 /\ IsCnfTerminal(rule[1])
                \/ Len(rule) = 2 /\ IsCnfVariable(rule[1]) /\ IsCnfVariable(rule[2])

RECURSIVE IsPrimed(_, _)
\* name is base followed by one or more apostrophes
IsPrimed(name, base) ==
    /\ Len(name) > Len(base)
    /\ name[Len(name)] = APOS
    /\ LET rest == SubSeq(name, 1, Len(name) - 1)
       IN  rest = base \/ IsPrimed(rest, base)

\* C3: an epsilon rule exists only under a fresh start variable (the original
\* start name plus apostrophes), and the fresh start and its epsilon rule exist
\* only if the original start derives the empty string in the input grammar;
\* otherwise the returned start is the original one and there is no epsilon rule.
C3_EpsilonOnlyOnFreshStart ==
    pc = "converted" =>
        /\ \A i \in DOMAIN cnf.grammar :
               Contains(cnf.grammar[i].v, <<EPS>>) =>
                   /\ cnf.grammar[i].k = cnf.start_var
                   /\ IsPrimed(cnf.start_var, StartVar)
                   /\ cnf.start_var \notin Keys(parsed.grammar)
        /\ cnf.start_var # StartVar => Derivable(parsed.grammar, StartVar, <<>>)
        /\ ~Derivable(parsed.grammar, StartVar, <<>>) =>
               /\ cnf.start_var = StartVar
               /\ \A i \in DOMAIN cnf.grammar : ~Contains(cnf.grammar[i].v, <<EPS>>)

NoDuplicates(s) == \A i, j \in DOMAIN s : s[i] = s[j] => i = j

\* the variables wrapping the terminal t in the returned grammar
WrappersOf(t) ==
    {v \in SeqToSet(cnf.fresh) : Has(cnf.grammar, v) /\ Get(cnf.grammar, v) = << <<t>> >>}

\* C4: translation tables. term_map and nonterm_map are inverse bijections,
\* each lifted terminal has one wrapper variable used for all its occurrences,
\* and every synthetic name (terminal wrapper, binarization chain, fresh start)
\* differs from every variable of the input grammar and from every other
\* synthetic name.
C4_TranslationTables ==
    pc = "converted" =>
        /\ NoDuplicates(KeyList(cnf.term_map))
        /\ NoDuplicates(KeyList(cnf.nonterm_map))
        /\ \A i \in DOMAIN cnf.term_map :
               /\ Has(cnf.nonterm_map, cnf.term_map[i].v)
               /\ Get(cnf.nonterm_map, cnf.term_map[i].v) = cnf.term_map[i].k
               /\ WrappersOf(cnf.term_map[i].k) = {cnf.term_map[i].v}
        /\ \A i \in DOMAIN cnf.nonterm_map :
               /\ Has(cnf.term_map, cnf.nonterm_map[i].v)
               /\ Get(cnf.term_map, cnf.nonterm_map[i].v) = cnf.nonterm_map[i].k
        /\ Keys(cnf.nonterm_map) \subseteq SeqToSet(cnf.fresh)
        /\ NoDuplicates(cnf.fresh)
        /\ SeqToSet(cnf.fresh) \cap Keys(parsed.grammar) = {}
        /\ cnf.start_var # StartVar =>
               cnf.start_var \notin Keys(parsed.grammar) \cup SeqToSet(cnf.fresh)

\* C4 witness: a grammar that has a variable X1 was converted, two terminals
\* were lifted and a binarization variable was introduced
C4_Witness ==
    /\ pc = "converted"
    /\ X1 \in Keys(parsed.grammar)
    /\ Len(cnf.term_map) >= 2
    /\ Len(cnf.fresh) > Len(cnf.term_map)

RECURSIVE LeafLabels(_)
\* the labels of the leaves of a tree, left to right
LeafLabels(node) ==
    IF HasChildren(node) /\ node.children # <<>>
    THEN Concat([c \in DOMAIN node.children |-> LeafLabels(node.children[c])])
    ELSE <<node.name>>

\* C5 as claimed: whenever run_cyk reports success, the leaf labels of the
\* reconstructed and flattened tree, joined with single spaces, are exactly
\* the input token sequence.
C5_RoundTripExact ==
    pc = "tree" => JoinSpaces(LeafLabels(tree)) = JoinSpaces(tokens)

\* C5 as amended: whenever run_cyk reports success, the leaves of the
\* reconstructed and flattened tree are, left to right, the input tokens, each
\* enclosed in double quotes.
C5_RoundTripQuoted ==
    pc = "tree" => LeafLabels(tree) = [i \in DOMAIN tokens |-> Quoted(tokens[i])]

\* C5 witness: a tree of three tokens was rebuilt through a binarization
\* variable and terminal wrappers
C5_Witness ==
    /\ pc = "tree"
    /\ Len(tokens) = 3
    /\ Len(cnf.fresh) > Len(cnf.term_map)
    /\ Len(cnf.term_map) >= 1
    /\ Len(LeafLabels(tree)) = 3

\* the label of a child as a symbol of a rule: a leaf carries a quoted terminal
ChildSymbol(node) ==
    IF HasChildren(node) THEN node.name
    ELSE SubSeq(node.name, 2, Len(node.name) - 1)

RECURSIVE NodesMatchRules(_, _)
\* every internal node A with children x1..xn is a rule A -> x1..xn of G
NodesMatchRules(node, G) ==
    HasChildren(node) =>
        /\ Has(G, node.name)
        /\ Contains(Get(G, node.name),
                    [c \in DOMAIN node.children |-> ChildSymbol(node.children[c])])
        /\ \A c \in DOMAIN node.children : NodesMatchRules(node.children[c], G)

\* C6: the reconstructed tree matches the original grammar: the root is
\* labelled with the original start variable and every internal node with its
\* ordered children is a rule of the validated grammar.
C6_TreeMatchesGrammar ==
    pc = "tree" =>
        /\ tree.name = StartVar
        /\ NodesMatchRules(tree, parsed.grammar)

\* the grammar as declared in the input, before any filtering
Declared ==
    DropEmpty((IF input.productions.type = "dict"
               THEN BuildFromDict(input.productions.val, <<>>)
               ELSE BuildFromList(input.productions.val, <<>>)).map)

\* the variables a rule mentions
RuleVariables(rule) == {rule[n] : n \in {m \in DOMAIN rule : is_variable(rule[m])}}

\* the least set U such that a variable with a rule whose variables are all
\* in U is in U
UsefulRef(G) ==
    LET Closed(U) == \A i \in DOMAIN G :
                         (\E j \in DOMAIN G[i].v : RuleVariables(G[i].v[j]) \subseteq U)
                             => G[i].k \in U
    IN  {x \in Keys(G) : \A U \in SUBSET Keys(G) : Closed(U) => x \in U}

\* the least set R that has the start and, with a variable, the variables of
\* its rules that mention only useful variables
ReachableRef(G, start) ==
    LET U == UsefulRef(G)
        Closed(R) ==
            /\ start \in R
            /\ \A i \in DOMAIN G : \A j \in DOMAIN G[i].v :
                   (G[i].k \in R /\ RuleVariables(G[i].v[j]) \subseteq U)
                       => RuleVariables(G[i].v[j]) \subseteq R
    IN  {x \in U : \A R \in SUBSET U : Closed(R) => x \in R}

\* C7: parse_cfg returns exactly the variables that are useful and reachable
\* from the start through rules that mention only useful variables; a kept
\* variable keeps, in order, its rules that mention only useful variables; every
\* kept rule mentions only kept variables; the start is a key; a declared
\* variable disconnected from the start is dropped without an error.
C7_UsefulAndReachable ==
    parsed.ok =>
        /\ Keys(parsed.grammar) = ReachableRef(Declared, StartVar)
        /\ NoDuplicates(KeyList(parsed.grammar))
        /\ StartVar \in Keys(parsed.grammar)
        /\ \A i \in DOMAIN parsed.grammar :
               /\ parsed.grammar[i].v =
                      SelectSeq(Get(Declared, parsed.grammar[i].k),
                                LAMBDA rule : RuleVariables(rule) \subseteq UsefulRef(Declared))
               /\ \A j \in DOMAIN parsed.grammar[i].v :
                      RuleVariables(parsed.grammar[i].v[j]) \subseteq Keys(parsed.grammar)

\* C7 witness: Scenario C was accepted and Z is not a key of the result
C7_Witness ==
    /\ input = ScenarioC
    /\ parsed.ok
    /\ Z \in Keys(Declared)
    /\ Z \notin Keys(parsed.grammar)

\* the errors parse_cfg raises before it computes the useful set
EarlierErrors ==
    {"InvalidStartSymbol", "InvalidLHS", "InvalidVariableName",
     "MalformedProduction", "NoProductions", "UndeclaredVariable"}

\* C8: parse_cfg raises CFGError for an unproductive start exactly when the
\* start variable is not in the least fixed point of usefulness, and then it
\* returns no grammar.
C8_UnproductiveStart ==
    (pc # "input" /\ parsed.err \notin EarlierErrors) =>
        /\ (StartVar \notin UsefulRef(Declared)) <=> (parsed.err = "UnproductiveStart")
        /\ parsed.err = "UnproductiveStart" => (~parsed.ok /\ parsed.grammar = <<>>)
        /\ StartVar \in UsefulRef(Declared) => parsed.ok

\* C8 witness: Scenario D (S -> S a only) was rejected as unproductive
C8_Witness ==
    /\ input = ScenarioD
    /\ pc = "rejected"
    /\ parsed.err = "UnproductiveStart"

\* C9: validator idempotence. parse_cfg applied to a grammar it returned
\* succeeds and returns the same variables and, for each variable, the same
\* rule list in the same order.
C9_Idempotent ==
    pc = "revalidated" =>
        /\ reparsed.ok
        /\ Keys(reparsed.grammar) = Keys(parsed.grammar)
        /\ \A x \in Keys(parsed.grammar) :
               Get(reparsed.grammar, x) = Get(parsed.grammar, x)

\* C9 witness: a grammar from which parse_cfg had dropped a rule and a variable
\* was validated again
C9_Witness ==
    /\ pc = "revalidated"
    /\ reparsed.ok
    /\ Keys(parsed.grammar) # Keys(Declared)
    /\ \E x \in Keys(parsed.grammar) : Get(parsed.grammar, x) # Get(Declared, x)

\* a set_grammar request whose grammar parse_cfg rejects has just been handled
FailedValidation(req) ==
    /\ req.route = "set_grammar"
    /\ ~parse_cfg(Strip(req.data.start), req.data.productions, req.order).ok

\* C10: a set_grammar request whose grammar fails validation returns a failure
\* response and leaves the five slots as they were, so that every later
\* validate request is answered as if the request had not been made.
C10_FailedValidationKeepsSlots ==
    [][FailedValidation(request') =>
           /\ response'.success = FALSE
           /\ UNCHANGED slots
           /\ \A data \in StringRequests : validate(Globals', data) = validate(Globals, data)
      ]_vars

\* C10 witness: a grammar is stored and the request handled last was rejected
\* by parse_cfg
C10_Witness ==
    /\ FailedValidation(request)
    /\ response.success = FALSE
    /\ ~GLOBAL_CNF.none

----------------------------------------------------------------------------
(* Claims about the server *)

\* the request handled last was a set_grammar request whose grammar parse_cfg
\* accepts and convert_to_cnf converts
ValidGrammarRequest ==
    /\ request.route = "set_grammar"
    /\ \E original_cfg \in {parse_cfg(Strip(request.data.start),
                                      request.data.productions, request.order)} :
           /\ original_cfg.ok
           /\ convert_to_cnf(original_cfg.grammar, Strip(request.data.start)).raised = ""

\* the slots hold what one request with this grammar installs
InstalledFrom(data, order) ==
    \E original_cfg \in {parse_cfg(Strip(data.start), data.productions, order)} :
        /\ original_cfg.ok
        /\ \E cnf_result \in {convert_to_cnf(original_cfg.grammar, Strip(data.start))} :
               /\ cnf_result.raised = ""
               /\ GLOBAL_ORIGINAL_CFG = Some(original_cfg.grammar)
               /\ GLOBAL_CNF = Some(cnf_result.grammar)
               /\ GLOBAL_START = Some(cnf_result.start_var)
               /\ GLOBAL_TERM_MAP = Some(cnf_result.term_map)
               /\ GLOBAL_NONTERM_MAP = Some(cnf_result.nonterm_map)

AllUnset ==
    /\ GLOBAL_ORIGINAL_CFG.none
    /\ GLOBAL_CNF.none
    /\ GLOBAL_START.none
    /\ GLOBAL_TERM_MAP.none
    /\ GLOBAL_NONTERM_MAP.none

\* C11: set_grammar is all-or-nothing. In every reachable state the five slots
\* are all unset or all hold what one and the same request installs, and a
\* request with a valid grammar is answered with success and leaves its own
\* CNF grammar, start variable and translation tables in the slots.
C11_AllOrNothing ==
    /\ \/ AllUnset
       \/ \E data \in GrammarRequests : \E order \in IterationOrders :
              InstalledFrom(data, order)
    /\ ValidGrammarRequest =>
           /\ response.success
           /\ InstalledFrom(request.data, request.order)

\* the request handled last was a validate request of zero tokens, with a
\* grammar set
ZeroTokenRequest ==
    /\ request.route = "validate"
    /\ Split(Strip(request.data.string), <<>>) = <<>>
    /\ ~GLOBAL_CNF.none
    /\ ~GLOBAL_ORIGINAL_CFG.none

\* the start variables of the requests that install the original grammar now
\* in GLOBAL_ORIGINAL_CFG
OriginalStarts ==
    {Strip(data.start) : data \in
        {d \in GrammarRequests : \E order \in IterationOrders :
            \E original_cfg \in {parse_cfg(Strip(d.start), d.productions, order)} :
                /\ original_cfg.ok
                /\ GLOBAL_ORIGINAL_CFG.val = original_cfg.grammar}}

\* C12: a validate request of zero tokens, with a grammar set, is answered
\* "derivable" exactly when the start variable of the original grammar has the
\* rule [ε], and it is answered by the epsilon check, not by the recognizer.
C12_EmptyString ==
    ZeroTokenRequest =>
        /\ response.success
        /\ response.message \in {"ε (empty string) is derivable.",
                                 "Empty string is NOT derivable."}
        /\ \A start \in OriginalStarts :
               response.valid <=> Contains(Get(GLOBAL_ORIGINAL_CFG.val, start), <<EPS>>)

----------------------------------------------------------------------------
(* Claims about the recognizer *)

\* run_cyk has been applied to a non-empty token sequence
Recognized == pc \in {"accepted", "not accepted", "tree"} /\ Len(tokens) >= 1

\* the pairs <<k, r>>: split index k and index r of a rule lhs -> B C such that
\* B has an entry in table[i][k] and C has one in table[k+1][j]
Combinations(table, G, lhs, i, j) ==
    {c \in (i..(j - 1)) \X DOMAIN Get(G, lhs) :
        LET rule == Get(G, lhs)[c[2]]
        IN  /\ Len(rule) = 2
            /\ Matches(table[i][c[1]], rule[1]) # <<>>
            /\ Matches(table[c[1] + 1][j], rule[2]) # <<>>}

\* the first combination: lowest split index, then earliest rule
FirstCombination(combinations) ==
    CHOOSE c \in combinations :
        \A d \in combinations : c[1] < d[1] \/ (c[1] = d[1] /\ c[2] <= d[2])

\* the entry that records a combination
EntryOf(table, G, lhs, i, j, c) ==
    LET rule == Get(G, lhs)[c[2]]
    IN  <<lhs, c[1], Matches(table[i][c[1]], rule[1])[1],
                   Matches(table[c[1] + 1][j], rule[2])[1]>>

\* C13: single-parse policy. After run_cyk every cell holds at most one entry
\* per variable, and the entry of a variable in a cell of a span of length
\* two or more is the one of the first combination, in the order "increasing
\* split index, then its rules in declaration order", whatever other
\* combinations exist.
C13_SingleParse ==
    Recognized =>
        \A i \in 0..(Len(tokens) - 1) : \A j \in i..(Len(tokens) - 1) :
            \A lhs \in Keys(cnf.grammar) :
                LET entries == Matches(cyk.table[i][j], lhs)
                    combinations == Combinations(cyk.table, cnf.grammar, lhs, i, j)
                IN  /\ Len(entries) <= 1
                    /\ (i < j /\ entries # <<>>) =>
                           /\ combinations # {}
                           /\ entries[1] = EntryOf(cyk.table, cnf.grammar, lhs, i, j,
                                                   FirstCombination(combinations))

\* C13 witness: an accepted input that is ambiguous at the full span, the start
\* variable having combinations at two split indices and two combinations at
\* one split index somewhere in the table
C13_Witness ==
    /\ pc = "accepted"
    /\ Len(tokens) >= 3
    /\ \E c, d \in Combinations(cyk.table, cnf.grammar, cnf.start_var, 0, Len(tokens) - 1) :
           c[1] # d[1]
    /\ \E i \in 0..(Len(tokens) - 1) : \E j \in (i + 1)..(Len(tokens) - 1) :
           \E lhs \in Keys(cnf.grammar) :
               \E c, d \in Combinations(cyk.table, cnf.grammar, lhs, i, j) :
                   c[1] = d[1] /\ c[2] # d[2]

----------------------------------------------------------------------------
(* Claims about the conversion *)

\* convert_to_cnf has been applied to the grammar parse_cfg returned
ConvertCalled == pc \in {"converted", "raised", "accepted", "not accepted", "tree"}

\* C14: the conversion is total. For every grammar that parse_cfg returns,
\* convert_to_cnf returns a result and raises nothing.
C14_ConversionTotal == ConvertCalled => cnf.raised = ""

----------------------------------------------------------------------------
(* Claims about the simplification pass *)

\* C15: simplification is idempotent. For every tree, simplify_node applied
\* to the result of simplify_node returns that result unchanged.
C15_SimplifyIdempotent == pc = "resimplified" => resimplified = simplified

\* C15 witness: the pass dissolved intermediate nodes of the tree, one with a
\* single child and one with several, kept one without children, and was run
\* on its result
C15_Witness ==
    /\ pc = "resimplified"
    /\ simplified # unsimplified
    /\ HasChildren(unsimplified)
    /\ \E c \in DOMAIN unsimplified.children :
           /\ IsIntermediateName(unsimplified.children[c].name)
           /\ HasChildren(unsimplified.children[c])
           /\ Len(unsimplified.children[c].children) >= 2
    /\ \E c \in DOMAIN unsimplified.children :
           /\ IsIntermediateName(unsimplified.children[c].name)
           /\ ~HasChildren(unsimplified.children[c])

----------------------------------------------------------------------------
(* Claims about the phases of the conversion *)

\* nul is closed under "a variable with an epsilon rule, or with a rule all of
\* whose symbols are variables in nul, is in nul"
NullableClosed(G, nul) ==
    \A x \in Keys(G) :
        (\E r \in DOMAIN Get(G, x) :
            LET rule == Get(G, x)[r]
            IN  rule = <<EPS>> \/ \A n \in DOMAIN rule : rule[n] \in nul)
        => x \in nul

\* the least such set
NullableRef(G) ==
    {x \in Keys(G) : \A nul \in SUBSET Keys(G) : NullableClosed(G, nul) => x \in nul}

RECURSIVE IsDropOf(_, _, _)
\* s is rule with some occurrences of members of nul left out
IsDropOf(s, rule, nul) ==
    IF rule = <<>> THEN s = <<>>
    ELSE \/ s # <<>> /\ Head(s) = Head(rule) /\ IsDropOf(Tail(s), Tail(rule), nul)
         \/ Head(rule) \in nul /\ IsDropOf(s, Tail(rule), nul)

\* C16: the nullable set that convert_to_cnf computes is the least fixed point
\* of "A has an epsilon rule or a rule all of whose symbols are nullable
\* variables"; a variable each of whose rules holds a terminal is not in it, and
\* epsilon elimination leaves out only occurrences of nullable variables.
C16_NullableLeastFixedPoint ==
    ConvertCalled =>
        LET G == parsed.grammar
            nullable == NullableSet(G)
            noeps == EliminateEpsilon(G, nullable)
        IN  /\ nullable = NullableRef(G)
            /\ \A x \in Keys(G) :
                   (\A r \in DOMAIN Get(G, x) :
                       \E n \in DOMAIN Get(G, x)[r] :
                           LET sym == Get(G, x)[r][n]
                           IN  sym # EPS /\ sym \notin Keys(G))
                   => x \notin nullable
            /\ \A x \in Keys(G) : \A s \in DOMAIN Get(noeps, x) :
                   \E r \in DOMAIN Get(G, x) :
                       IsDropOf(Get(noeps, x)[s], Get(G, x)[r], NullableRef(G))

\* the grammar given to the unit-elimination loop, and the one it leaves
UnitPhaseInput == WithNewStart(parsed.grammar, StartVar).grammar
UnitPhaseOutput == EliminateUnits(UnitPhaseInput)

\* the terminal strings the claims about derivations are checked on
CheckedStrings == TokenSeqs(input.words)

\* C17: unit elimination preserves what each variable derives. When the loop
\* has ended no rule A -> B with B # A is left, and every variable derives the
\* same terminal strings (here: every span of every checked string) as it did
\* before the phase, chains of unit rules included.
C17_UnitEliminationPreserves ==
    ConvertCalled =>
        /\ ~HasProperUnit(UnitPhaseOutput)
        /\ Keys(UnitPhaseOutput) = Keys(UnitPhaseInput)
        /\ \A w \in CheckedStrings :
               DerivFix(UnitPhaseOutput, w, {}) = DerivFix(UnitPhaseInput, w, {})

----------------------------------------------------------------------------
(* Claims about the table *)

\* the grammar given to run_cyk is in CNF: every rule is one terminal, two
\* variables, or the epsilon rule of the start variable
CnfShaped ==
    \A i \in DOMAIN cnf.grammar : \A j \in DOMAIN cnf.grammar[i].v :
        LET rule == cnf.grammar[i].v[j]
        IN  \/ rule = <<EPS>> /\ cnf.grammar[i].k = cnf.start_var
            \/ Len(rule) = 1 /\ IsCnfTerminal(rule[1])
            \/ Len(rule) = 2 /\ IsCnfVariable(rule[1]) /\ IsCnfVariable(rule[2])

\* run_cyk has been applied to a grammar in CNF
RecognizerCalled == pc \in {"accepted", "not accepted", "tree"} /\ CnfShaped

\* C18: the table is correct. For a grammar in CNF and a non-empty token
\* sequence, a variable has an entry in table[i][j] exactly when it derives
\* tokens[i..j] in the grammar, and success says whether the start variable has
\* an entry in table[0][n-1]; for the empty token sequence the table is empty
\* and success is false.
C18_TableCorrect ==
    RecognizerCalled =>
        IF tokens = <<>>
        THEN cyk.table = <<>> /\ cyk.success = FALSE
        ELSE LET n == Len(tokens)
                 derives == DerivFix(cnf.grammar, tokens, {})
             IN  /\ \A i \in 0..(n - 1) : \A j \in i..(n - 1) :
                        /\ \A e \in DOMAIN cyk.table[i][j] :
                               cyk.table[i][j][e][1] \in Keys(cnf.grammar)
                        /\ \A lhs \in Keys(cnf.grammar) :
                               Matches(cyk.table[i][j], lhs) # <<>>
                                   <=> <<lhs, i, j + 1>> \in derives
                 /\ cyk.success <=> Matches(cyk.table[0][n - 1], cnf.start_var) # <<>>

----------------------------------------------------------------------------
(* Claims about the reconstruction *)

\* the binarization-chain variables: the names fresh_var returned that are not
\* terminal wrappers
ChainVariables == SeqToSet(cnf.fresh) \ Keys(cnf.nonterm_map)

\* what a child contributes when exactly the subtrees of chain variables are
\* replaced by their children
SpliceChain(child, chain) ==
    IF child.name \in chain
    THEN IF HasChildren(child) THEN child.children ELSE <<>>
    ELSE <<child>>

RECURSIVE ReconstructRef(_, _, _, _, _, _)
\* the tree of the entries of the table in which exactly the subtrees rooted
\* at chain variables are replaced by their children and a terminal wrapper
\* is the leaf of its terminal
ReconstructRef(table, i, j, variable, nonterm_map, chain) ==
    LET entry == Matches(table[i][j], variable)[1]
    IN  IF Len(entry) = 2
        THEN IF Has(nonterm_map, entry[1])
             THEN Leaf(Quoted(Get(nonterm_map, entry[1])))
             ELSE Node(entry[1], <<Leaf(Quoted(entry[2]))>>)
        ELSE Node(entry[1],
                  SpliceChain(ReconstructRef(table, i, entry[2], entry[3][1],
                                             nonterm_map, chain), chain)
                  \o SpliceChain(ReconstructRef(table, entry[2] + 1, j, entry[4][1],
                                                nonterm_map, chain), chain))

\* C19: in the reconstructed tree a subtree is replaced by its children exactly
\* when its root is a binarization-chain variable of convert_to_cnf; a subtree
\* rooted at a variable of the original grammar, whatever its name, stays one
\* child node, and a terminal wrapper is the leaf of its terminal.
C19_FlattenOnlyChainVariables ==
    pc = "tree" =>
        tree = flatten_tree(ReconstructRef(cyk.table, 0, Len(tokens) - 1, cnf.start_var,
                                           cnf.nonterm_map, ChainVariables))


----------------------------------------------------------------------------
(* Claims about concurrent requests                                        *)

\* a validate request has answered with a verdict
ValidateAnswered == validator.pc = "idle" /\ validator.answered

\* C20: under any interleaving of set_grammar and validate requests, the
\* slots a validate request read to compute its verdict and tree (CNF
\* grammar, start variable, nonterm_map, original CFG) were all assigned by
\* one and the same set_grammar request
C20_ValidateReadsOneGrammar ==
    ValidateAnswered =>
        \E id \in 1..MaxRequests : \A r \in validator.read : r[2] = id

=============================================================================
